---- MODULE Spec2Model ----
(***************************************************************************)
(* Moodify (src/moodify.py): one Streamlit script run of main():           *)
(* camera photo -> cv2.imread -> detect_emotion_from_image -> get_genre    *)
(* -> get_tracks_by_genre -> rendering.  The Haar cascade, the Keras       *)
(* model and the Spotify client are collaborators: what they return or     *)
(* raise is chosen nondeterministically from bounded sets.                 *)
(***************************************************************************)
EXTENDS Integers, Sequences, FiniteSets, TLC

VARIABLES
  pc,              \* position of the script run inside main()
  img_file,        \* main: what st.camera_input returned
  frame,           \* main: what cv2.imread returned
  image,           \* detect_emotion_from_image: its parameter, once invoked
  faces,           \* detect_emotion_from_image: what detectMultiScale returned
  prediction,      \* detect_emotion_from_image: what emotion_model.predict returned
  classifierCalls, \* the faces emotion_model.predict was called on, in order
  emotion,         \* main: the label detect_emotion_from_image returned
  genre,           \* main: get_genre(emotion)
  results,         \* get_tracks_by_genre: what sp.search returned or raised
  queries,         \* the sp.search calls made, in order
  tracks,          \* main: what get_tracks_by_genre returned
  errors,          \* the st.error messages of get_tracks_by_genre
  raisedAt,        \* the call whose exception left main() uncaught
  genreCalls       \* the get_genre calls made so far (SpecGenre)

vars == <<pc, img_file, frame, image, faces, prediction, classifierCalls,
          emotion, genre, results, queries, tracks, errors, raisedAt, genreCalls>>

pipelineVars == <<pc, img_file, frame, image, faces, prediction, classifierCalls,
                  emotion, genre, results, queries, tracks, errors, raisedAt>>

(***************************************************************************)
(* Bounds of the model.                                                    *)
(***************************************************************************)
\* most faces the locator returns for one image
MaxFaces == 2
\* largest entry of a prediction vector (probabilities scaled to integers)
MaxProb == 1
\* most result items of a catalog response in a full script run
MaxPipelineItems == 2
\* most result items of a catalog response when get_tracks_by_genre is run alone
MaxItems == 6
\* most get_genre calls in a row
MaxCalls == 3

(***************************************************************************)
(* Program constants.                                                      *)
(***************************************************************************)
\* sp.search(..., limit=5)
Limit == 5

emotion_labels == <<"Angry", "Disgust", "Fear", "Happy", "Sad", "Surprise", "Neutral">>

LabelSet == {emotion_labels[i] : i \in 1..Len(emotion_labels)}

SeqsUpTo(S, n) == UNION {[1..k -> S] : k \in 0..n}

(***************************************************************************)
(* get_genre: the mapping dict and mapping.get(emotion, 'pop').            *)
(***************************************************************************)
get_genre_default_chill(label) ==
  CASE label = "Happy" -> "pop"
    [] label = "Sad" -> "acoustic"
    [] label = "Angry" -> "rock"
    [] label = "Surprise" -> "dance"
    [] label = "Neutral" -> "chill"
    [] label = "Fear" -> "ambient"
    [] label = "Disgust" -> "metal"
    [] OTHER -> "chill"

get_genre(label) ==
  CASE label = "Happy" -> "pop"
    [] label = "Sad" -> "acoustic"
    [] label = "Angry" -> "rock"
    [] label = "Surprise" -> "dance"
    [] label = "Neutral" -> "chill"
    [] label = "Fear" -> "ambient"
    [] label = "Disgust" -> "metal"
    [] OTHER -> "pop"

(***************************************************************************)
(* np.argmax: a left-to-right scan that keeps the first maximum; the       *)
(* result is 0-based.                                                      *)
(***************************************************************************)
RECURSIVE argmax_scan(_, _, _)
argmax_scan(v, i, best) ==
  IF i > Len(v) THEN best
  ELSE argmax_scan(v, i + 1, IF v[i] > v[best] THEN i ELSE best)

RECURSIVE argmax_scan_last(_, _, _)
argmax_scan_last(v, i, best) ==
  IF i > Len(v) THEN best
  ELSE argmax_scan_last(v, i + 1, IF v[i] >= v[best] THEN i ELSE best)

np_argmax_last(v) == argmax_scan_last(v, 2, 1) - 1

np_argmax(v) == argmax_scan(v, 2, 1) - 1

\* emotion_labels[np.argmax(prediction)], Python's 0-based indexing
label_of(v) == emotion_labels[np_argmax(v) + 1]

(***************************************************************************)
(* The collaborators' answers.                                             *)
(***************************************************************************)
\* the probability vector of the spec's example, times 100
ExampleVector == <<10, 5, 5, 60, 10, 5, 5>>

PredictionVectors == [1..7 -> 0..MaxProb] \cup {ExampleVector}

\* emotion_model.predict returns a vector or raises
ClassifierOutcomes ==
  {[returned |-> v] : v \in PredictionVectors} \cup {[raised |-> "predict"]}

\* detectMultiScale returns n rectangles, the i-th one named i, or raises
LocatorOutcomes ==
  {[returned |-> [i \in 1..n |-> i]] : n \in 0..MaxFaces}
    \cup {[raised |-> "detectMultiScale"]}

\* result items of a catalog response: two well-formed ones, and one without
\* a 'name', one with an empty 'artists' list, one without 'external_urls'
Item1 == [name |-> "t1", artists |-> <<"a1">>, external_urls |-> "u1"]
Item2 == [name |-> "t2", artists |-> <<"a2", "a1">>, external_urls |-> "u2"]
ItemNoName == [artists |-> <<"a1">>, external_urls |-> "u1"]
ItemNoArtist == [name |-> "t1", artists |-> <<>>, external_urls |-> "u1"]
ItemNoUrl == [name |-> "t1", artists |-> <<"a1">>]

Items == {Item1, Item2, ItemNoName, ItemNoArtist, ItemNoUrl}

Faults == {"auth", "ratelimit", "network"}

\* sp.search raises, or returns a payload: one without 'tracks', one without
\* 'items', or one with up to n result items
SearchOutcomes(n) ==
  {[raised |-> f] : f \in Faults}
    \cup {[returned |-> [error |-> "bad"]], [returned |-> [tracks |-> [total |-> 0]]]}
    \cup {[returned |-> [tracks |-> [items |-> s]]] : s \in SeqsUpTo(Items, n)}

(***************************************************************************)
(* get_tracks_by_genre.                                                    *)
(***************************************************************************)
make_track_last_artist(item) ==
  [name |-> item.name, artist |-> item.artists[Len(item.artists)],
   url |-> item.external_urls]

\* the dict appended per item: item['name'], item['artists'][0]['name'],
\* item['external_urls']['spotify']
make_track(item) ==
  [name |-> item.name, artist |-> item.artists[1], url |-> item.external_urls]

\* the for loop over results['tracks']['items']: the tracks built so far and
\* the exception that ended the loop, if any
RECURSIVE build_tracks(_, _)
build_tracks(items, built) ==
  IF items = <<>> THEN [exc |-> "", tracks |-> built]
  ELSE LET item == Head(items) IN
    IF "name" \notin DOMAIN item THEN [exc |-> "KeyError", tracks |-> built]
    ELSE IF item.artists = <<>> THEN [exc |-> "IndexError", tracks |-> built]
    ELSE IF "external_urls" \notin DOMAIN item
      THEN [exc |-> "KeyError", tracks |-> built]
    ELSE build_tracks(Tail(items), Append(built, make_track(item)))

\* the body of the try block
try_body(outcome) ==
  IF "raised" \in DOMAIN outcome THEN [exc |-> outcome.raised, tracks |-> <<>>]
  ELSE LET payload == outcome.returned IN
    IF "tracks" \notin DOMAIN payload THEN [exc |-> "KeyError", tracks |-> <<>>]
    ELSE IF "items" \notin DOMAIN payload.tracks
      THEN [exc |-> "KeyError", tracks |-> <<>>]
    ELSE build_tracks(payload.tracks.items, <<>>)

\* sp.search(q=f'genre:{genre}', type='track', limit=5)
search_call(g) == [q |-> "genre:" \o g, type |-> "track", limit |-> Limit]

\* no except clause: the exception leaves the function
get_tracks_no_except(g, outcome) ==
  LET r == try_body(outcome) IN
  [query |-> search_call(g), tracks |-> IF r.exc = "" THEN r.tracks ELSE <<>>,
   logged |-> <<>>, exc |-> r.exc]

\* except clause that returns [] without st.error
get_tracks_silent(g, outcome) ==
  LET r == try_body(outcome) IN
  [query |-> search_call(g), tracks |-> IF r.exc = "" THEN r.tracks ELSE <<>>,
   logged |-> <<>>, exc |-> ""]

\* except clause that returns the tracks built before the exception
get_tracks_partial(g, outcome) ==
  LET r == try_body(outcome) IN
  [query |-> search_call(g), tracks |-> r.tracks,
   logged |-> IF r.exc = "" THEN <<>> ELSE <<"Spotify API error: " \o r.exc>>,
   exc |-> ""]

\* what a call returns (tracks), reports with st.error (logged) and lets
\* escape (exc), given what sp.search did
get_tracks_by_genre(g, outcome) ==
  LET r == try_body(outcome) IN
  IF r.exc = ""
  THEN [query |-> search_call(g), tracks |-> r.tracks, logged |-> <<>>, exc |-> ""]
  ELSE [query |-> search_call(g), tracks |-> <<>>,
        logged |-> <<"Spotify API error: " \o r.exc>>, exc |-> ""]

(***************************************************************************)
(* detect_emotion_from_image.                                              *)
(***************************************************************************)
first_face_is_last(fs) == fs[Len(fs)]

\* for (x, y, w, h) in faces: ... return emotion -- the body runs for the
\* first element only
first_face(fs) == fs[1]

Init ==
  /\ pc = "start"
  /\ img_file = ""
  /\ frame = ""
  /\ image = ""
  /\ faces = <<>>
  /\ prediction = <<>>
  /\ classifierCalls = <<>>
  /\ emotion = ""
  /\ genre = ""
  /\ results = [none |-> TRUE]
  /\ queries = <<>>
  /\ tracks = <<>>
  /\ errors = <<>>
  /\ raisedAt = ""
  /\ genreCalls = <<>>

\* main: st.camera_input returned a file; it is written out and cv2.imread
\* gives an image, or None when the bytes do not decode
MainCapture ==
  /\ pc = "start"
  /\ \E f \in {"decodable", "undecodable"} :
       /\ img_file' = f
       /\ frame' = IF f = "decodable" THEN "image" ELSE "None"
  /\ pc' = "decoded"
  /\ UNCHANGED <<image, faces, prediction, classifierCalls, emotion, genre,
                 results, queries, tracks, errors, raisedAt, genreCalls>>

\* main: st.camera_input returned None, nothing else runs
MainNoCapture ==
  /\ pc = "start"
  /\ img_file' = "None"
  /\ pc' = "done"
  /\ UNCHANGED <<frame, image, faces, prediction, classifierCalls, emotion, genre,
                 results, queries, tracks, errors, raisedAt, genreCalls>>

\* main calls detect_emotion_from_image(frame): cvtColor raises on None,
\* else detectMultiScale returns the faces or raises
DetectFaces ==
  /\ pc = "decoded"
  /\ image' = frame
  /\ IF frame = "None"
     THEN /\ pc' = "crashed"
          /\ raisedAt' = "cvtColor"
          /\ UNCHANGED faces
     ELSE \E o \in LocatorOutcomes :
            IF "raised" \in DOMAIN o
            THEN /\ pc' = "crashed"
                 /\ raisedAt' = o.raised
                 /\ UNCHANGED faces
            ELSE /\ pc' = "located"
                 /\ faces' = o.returned
                 /\ UNCHANGED raisedAt
  /\ UNCHANGED <<img_file, frame, prediction, classifierCalls, emotion, genre,
                 results, queries, tracks, errors, genreCalls>>

\* a no-face fallback that classifies the whole image (face 0)
ReturnNoFaceClassifies ==
  /\ pc = "located"
  /\ Len(faces) = 0
  /\ classifierCalls' = Append(classifierCalls, 0)
  /\ \E v \in PredictionVectors : emotion' = label_of(v)
  /\ pc' = "detected"
  /\ UNCHANGED <<img_file, frame, image, faces, prediction, genre,
                 results, queries, tracks, errors, raisedAt, genreCalls>>

\* if len(faces) == 0: return "Neutral"
ReturnNoFace ==
  /\ pc = "located"
  /\ Len(faces) = 0
  /\ emotion' = "Neutral"
  /\ pc' = "detected"
  /\ UNCHANGED <<img_file, frame, image, faces, prediction, classifierCalls, genre,
                 results, queries, tracks, errors, raisedAt, genreCalls>>

\* the loop body on the first face: crop, resize, predict, argmax
ClassifyFace ==
  /\ pc = "located"
  /\ Len(faces) > 0
  /\ classifierCalls' = Append(classifierCalls, first_face(faces))
  /\ \E o \in ClassifierOutcomes :
       IF "raised" \in DOMAIN o
       THEN /\ pc' = "crashed"
            /\ raisedAt' = o.raised
            /\ UNCHANGED <<prediction, emotion>>
       ELSE /\ pc' = "classified"
            /\ prediction' = o.returned
            /\ emotion' = label_of(o.returned)
            /\ UNCHANGED raisedAt
  /\ UNCHANGED <<img_file, frame, image, faces, genre,
                 results, queries, tracks, errors, genreCalls>>

\* return emotion, inside the loop: the function's locals are gone
ReturnEmotion ==
  /\ pc = "classified"
  /\ prediction' = <<>>
  /\ pc' = "detected"
  /\ UNCHANGED <<img_file, frame, image, faces, classifierCalls, emotion, genre,
                 results, queries, tracks, errors, raisedAt, genreCalls>>

\* genre = get_genre(emotion)
MapGenre ==
  /\ pc = "detected"
  /\ genre' = get_genre(emotion)
  /\ pc' = "mapped"
  /\ UNCHANGED <<img_file, frame, image, faces, prediction, classifierCalls, emotion,
                 results, queries, tracks, errors, raisedAt, genreCalls>>

\* tracks = get_tracks_by_genre(genre), the catalog answering with at most n items
GetTracks(n) ==
  /\ pc = "mapped"
  /\ \E o \in SearchOutcomes(n) :
       LET r == get_tracks_by_genre(genre, o) IN
       /\ results' = o
       /\ queries' = Append(queries, r.query)
       /\ errors' = errors \o r.logged
       /\ IF r.exc # ""
          THEN /\ pc' = "crashed"
               /\ raisedAt' = "search"
               /\ UNCHANGED tracks
          ELSE /\ pc' = "fetched"
               /\ tracks' = r.tracks
               /\ UNCHANGED raisedAt
  /\ UNCHANGED <<img_file, frame, image, faces, prediction, classifierCalls, emotion,
                 genre, genreCalls>>

\* the results, the track cards or the warning, the project info, os.remove
Render ==
  /\ pc = "fetched"
  /\ pc' = "done"
  /\ UNCHANGED <<img_file, frame, image, faces, prediction, classifierCalls, emotion,
                 genre, results, queries, tracks, errors, raisedAt, genreCalls>>

\* Streamlit runs the script again for the next interaction, with fresh locals
Rerun ==
  /\ pc \in {"done", "crashed"}
  /\ pc' = "start"
  /\ img_file' = ""
  /\ frame' = ""
  /\ image' = ""
  /\ faces' = <<>>
  /\ prediction' = <<>>
  /\ classifierCalls' = <<>>
  /\ emotion' = ""
  /\ genre' = ""
  /\ results' = [none |-> TRUE]
  /\ queries' = <<>>
  /\ tracks' = <<>>
  /\ errors' = <<>>
  /\ raisedAt' = ""
  /\ UNCHANGED genreCalls

Next ==
  \/ MainCapture
  \/ MainNoCapture
  \/ DetectFaces
  \/ ReturnNoFace
  \/ ClassifyFace
  \/ ReturnEmotion
  \/ MapGenre
  \/ GetTracks(MaxPipelineItems)
  \/ Render
  \/ Rerun

Spec == Init /\ [][Next]_vars

(***************************************************************************)
(* get_tracks_by_genre alone: entered with each genre main can pass, the   *)
(* catalog answering with up to MaxItems items.                            *)
(***************************************************************************)
InitSearch ==
  /\ pc = "mapped"
  /\ img_file = "decodable"
  /\ frame = "image"
  /\ image = "image"
  /\ faces = <<1>>
  /\ prediction = <<>>
  /\ classifierCalls = <<1>>
  /\ emotion \in LabelSet
  /\ genre = get_genre(emotion)
  /\ results = [none |-> TRUE]
  /\ queries = <<>>
  /\ tracks = <<>>
  /\ errors = <<>>
  /\ raisedAt = ""
  /\ genreCalls = <<>>

NextSearch ==
  \/ GetTracks(MaxItems)
  \/ Render

SpecSearch == InitSearch /\ [][NextSearch]_vars

(***************************************************************************)
(* get_genre alone: called on labels inside and outside the closed set,    *)
(* each call recorded with its result.                                     *)
(***************************************************************************)
GenreInputs == LabelSet \cup {"Bored", "happy", ""}

CallGetGenre ==
  /\ Len(genreCalls) < MaxCalls
  /\ \E l \in GenreInputs :
       genreCalls' = Append(genreCalls, [emotion |-> l, genre |-> get_genre(l)])
  /\ UNCHANGED pipelineVars

NextGenre == CallGetGenre

SpecGenre == Init /\ [][NextGenre]_vars

(***************************************************************************)
(* Vocabulary of the properties.                                           *)
(***************************************************************************)
\* the genre table of the Genre Mapper, as the specification lists it
MappedGenre ==
  [Happy |-> "pop", Sad |-> "acoustic", Angry |-> "rock", Surprise |-> "dance",
   Neutral |-> "chill", Fear |-> "ambient", Disgust |-> "metal"]

\* the request got past detect_emotion_from_image with a decoded image
Detected == image = "image" /\ pc \in {"detected", "mapped", "fetched", "done"}

\* get_tracks_by_genre has returned
Searched == pc \in {"fetched", "done"} /\ queries # <<>>

\* the catalog answered with a list of result items
HasItems ==
  /\ "returned" \in DOMAIN results
  /\ "tracks" \in DOMAIN results.returned
  /\ "items" \in DOMAIN results.returned.tracks

ResponseItems == results.returned.tracks.items

WellFormed(item) ==
  /\ "name" \in DOMAIN item
  /\ "artists" \in DOMAIN item
  /\ Len(item.artists) >= 1
  /\ "external_urls" \in DOMAIN item

\* the catalog call succeeded: a list of items, each well-formed
CallSucceeded ==
  HasItems /\ \A i \in 1..Len(ResponseItems) : WellFormed(ResponseItems[i])

\* the catalog call was made and failed
CallFailed == queries # <<>> /\ ~CallSucceeded

(***************************************************************************)
(* C1: when the Face Locator returns zero faces, the emotion is Neutral,   *)
(* the genre (once mapped) is chill, and the Emotion Classifier is never   *)
(* called during the request.                                              *)
(***************************************************************************)
C1_NoFaceIsNeutralChill ==
  (Detected /\ Len(faces) = 0) =>
    /\ emotion = "Neutral"
    /\ classifierCalls = <<>>
    /\ (pc # "detected" => genre = "chill")

C1_Witness == pc = "done" /\ image = "image" /\ Len(faces) = 0 /\ genre = "chill"

(***************************************************************************)
(* C2: get_tracks_by_genre never returns more than 5 tracks, however many  *)
(* result items the catalog puts in its response.                          *)
(***************************************************************************)
C2_AtMostFiveTracks == Searched => Len(tracks) <= 5

(***************************************************************************)
(* C3: when the catalog call fails (it raises, or its payload or one of    *)
(* its items is malformed), get_tracks_by_genre returns the empty list,    *)
(* nothing is raised to main, and the error is reported once.              *)
(***************************************************************************)
C3_FailureGivesEmptyList ==
  CallFailed =>
    /\ pc \in {"fetched", "done"}
    /\ raisedAt = ""
    /\ tracks = <<>>
    /\ Len(errors) = 1

C3_Witness ==
  /\ pc = "fetched"
  /\ "raised" \in DOMAIN results
  /\ results.raised = "ratelimit"
  /\ tracks = <<>>

C5_GenreMapping ==
  \A i \in 1..Len(genreCalls) :
    LET c == genreCalls[i] IN
    /\ c.emotion = "Happy" => c.genre = "pop"
    /\ c.emotion = "Sad" => c.genre = "acoustic"
    /\ c.emotion = "Angry" => c.genre = "rock"
    /\ c.emotion = "Surprise" => c.genre = "dance"
    /\ c.emotion = "Neutral" => c.genre = "chill"
    /\ c.emotion = "Fear" => c.genre = "ambient"
    /\ c.emotion = "Disgust" => c.genre = "metal"
    /\ c.emotion \notin LabelSet => c.genre = "pop"
    /\ \A j \in 1..Len(genreCalls) :
         genreCalls[j].emotion = c.emotion => genreCalls[j].genre = c.genre

C5_Witness ==
  /\ Len(genreCalls) = 3
  /\ genreCalls[1].emotion = "Disgust"
  /\ genreCalls[2].emotion = "Bored"
  /\ genreCalls[3].emotion = "Disgust"

(***************************************************************************)
(* C6: the label selected is the one with the largest entry of the         *)
(* prediction vector, and the lowest-indexed one when several entries are  *)
(* largest; the example vector selects Happy, which maps to pop.           *)
(***************************************************************************)
C6_ArgmaxLowestIndex ==
  pc = "classified" =>
    /\ \E k \in 1..7 :
         /\ emotion = emotion_labels[k]
         /\ \A j \in 1..7 : prediction[j] <= prediction[k]
         /\ \A j \in 1..(k - 1) : prediction[j] < prediction[k]
    /\ prediction = ExampleVector =>
         (emotion = "Happy" /\ MappedGenre[emotion] = "pop")

C6_Witness ==
  /\ pc = "classified"
  /\ emotion = "Fear"
  /\ prediction[3] = prediction[6]
  /\ \A j \in 1..7 : prediction[j] <= prediction[3]

(***************************************************************************)
(* C7: when the Face Locator returns one or more faces, the Emotion        *)
(* Classifier is called exactly once, on the first face returned; no other *)
(* face is classified.                                                     *)
(***************************************************************************)
C7_OnlyFirstFaceClassified ==
  /\ (image = "image" /\ Len(faces) >= 1 /\ pc # "located") =>
       classifierCalls = <<faces[1]>>
  /\ pc = "located" => classifierCalls = <<>>

C7_Witness == pc = "done" /\ Len(faces) >= 2 /\ classifierCalls = <<1>>

(***************************************************************************)
(* C8: a request makes exactly one catalog search, after the emotion is    *)
(* determined, for "genre:" + the emotion's genre with limit 5 (Sad gives  *)
(* "genre:acoustic"); when the call succeeds the tracks are the catalog's  *)
(* items in order, each with its title, first artist and URL.              *)
(***************************************************************************)
C8_OneSearchPassedThrough ==
  /\ Len(queries) <= 1
  /\ queries # <<>> => emotion \in LabelSet
  /\ (Detected /\ pc \in {"fetched", "done"}) =>
       /\ Len(queries) = 1
       /\ queries[1].q = "genre:" \o MappedGenre[emotion]
       /\ queries[1].limit = 5
       /\ (emotion = "Sad" => queries[1].q = "genre:acoustic")
       /\ CallSucceeded =>
            tracks = [i \in 1..Len(ResponseItems) |->
                        [name |-> ResponseItems[i].name,
                         artist |-> ResponseItems[i].artists[1],
                         url |-> ResponseItems[i].external_urls]]

C8_Witness ==
  /\ pc = "fetched"
  /\ emotion = "Sad"
  /\ HasItems
  /\ ResponseItems = <<Item2, Item1>>
  /\ Len(tracks) = 2

(***************************************************************************)
(* C9: detect_emotion_from_image is only ever invoked with a decoded       *)
(* image, never with the None of a failed decode.                          *)
(***************************************************************************)
C9_DetectOnlyOnDecodedImage == image # "None"

(***************************************************************************)
(* C10: when any result item of a catalog response is malformed, the       *)
(* whole result is the empty list, never the well-formed items before it.  *)
(***************************************************************************)
C10_AllOrNothing ==
  (Searched /\ HasItems /\ \E i \in 1..Len(ResponseItems) : ~WellFormed(ResponseItems[i]))
    => tracks = <<>>

C10_Witness ==
  /\ pc = "fetched"
  /\ HasItems
  /\ Len(ResponseItems) = 3
  /\ ResponseItems[1] = Item1
  /\ ResponseItems[2] = Item2
  /\ ResponseItems[3] = ItemNoArtist
  /\ tracks = <<>>

====
